---- MODULE Spec2Model ----
(***************************************************************************)
(* Model of the rustcalculator read-eval-print loop (src/src/main.rs), its *)
(* tokenizer and Pratt-style parser (src/src/parser.rs) and its error      *)
(* values (src/src/error.rs).                                              *)
(*                                                                         *)
(* A line is a sequence of one-character strings.  An f64 is the record    *)
(* [k, neg, n, d]: k is "fin", "inf" or "nan", neg the sign bit and n/d    *)
(* the magnitude of a finite value in lowest terms.  Rounding and overflow *)
(* of finite values are not modelled: the exact quotient stands for the    *)
(* double nearest to it.                                                   *)
(***************************************************************************)
EXTENDS Integers, Sequences, FiniteSets, TLC

VARIABLES
    buf,      \* main.rs: the line buffer `buf`
    eof,      \* stdin has reached end of file (read_line returns 0 bytes)
    i,        \* main.rs: the result index `i`
    pc,       \* position inside one iteration of the loop
    tokens,   \* parser.rs: the token vector `tokens` of parse
    expr,     \* main.rs: `expr`, the outcome of catch_unwind(parse)
    out,      \* the lines written for the current input line
    printed   \* number of result lines written to stdout so far

vars == <<buf, eof, i, pc, tokens, expr, out, printed>>

(***************************************************************************)
(* Bounds of the model.                                                    *)
(***************************************************************************)
MaxLineLen == 4     \* characters of a line before its line terminator
MaxShortLineLen == 2  \* the same, for the lines of FairSpec
MaxIndex == 2       \* lines are read while i <= MaxIndex
MaxTokens == 6      \* tokens before Eof, token sequences with parentheses
MaxFlatTokens == 7  \* tokens before Eof, parenthesis-free token sequences

(***************************************************************************)
(* f64 values.                                                             *)
(***************************************************************************)
RECURSIVE Gcd(_, _)
Gcd(a, b) == IF b = 0 THEN a ELSE Gcd(b, a % b)

Abs(x) == IF x < 0 THEN -x ELSE x

Fin(neg, n, d) ==
    LET g == Gcd(n, d)
    IN [k |-> "fin", neg |-> neg, n |-> n \div g, d |-> d \div g]

Inf(neg) == [k |-> "inf", neg |-> neg, n |-> 0, d |-> 1]

INFINITY == Inf(FALSE)

NaN == [k |-> "nan", neg |-> FALSE, n |-> 0, d |-> 1]

IsZero(a) == a.k = "fin" /\ a.n = 0

Signed(a) == IF a.neg THEN -a.n ELSE a.n

f64_neg(a) == IF a.k = "nan" THEN NaN ELSE [a EXCEPT !.neg = ~a.neg]

f64_add(a, b) ==
    IF a.k = "nan" \/ b.k = "nan" THEN NaN
    ELSE IF a.k = "inf" /\ b.k = "inf" THEN (IF a.neg = b.neg THEN a ELSE NaN)
    ELSE IF a.k = "inf" THEN a
    ELSE IF b.k = "inf" THEN b
    ELSE LET s == Signed(a) * b.d + Signed(b) * a.d
         IN IF s = 0 THEN Fin(a.neg /\ b.neg, 0, 1)
            ELSE Fin(s < 0, Abs(s), a.d * b.d)

f64_sub(a, b) == f64_add(a, f64_neg(b))

f64_mul(a, b) ==
    IF a.k = "nan" \/ b.k = "nan" THEN NaN
    ELSE IF (a.k = "inf" /\ IsZero(b)) \/ (IsZero(a) /\ b.k = "inf") THEN NaN
    ELSE IF a.k = "inf" \/ b.k = "inf" THEN Inf(a.neg # b.neg)
    ELSE Fin(a.neg # b.neg, a.n * b.n, a.d * b.d)

f64_div(a, b) ==
    IF a.k = "nan" \/ b.k = "nan" THEN NaN
    ELSE IF (a.k = "inf" /\ b.k = "inf") \/ (IsZero(a) /\ IsZero(b)) THEN NaN
    ELSE IF a.k = "inf" \/ IsZero(b) THEN Inf(a.neg # b.neg)
    ELSE IF b.k = "inf" THEN Fin(a.neg # b.neg, 0, 1)
    ELSE Fin(a.neg # b.neg, a.n * b.d, a.d * b.n)

(***************************************************************************)
(* Characters.                                                             *)
(***************************************************************************)
Digits == <<"0", "1", "2", "3", "4", "5", "6", "7", "8", "9">>

is_ascii_digit(c) == \E j \in 1..Len(Digits) : Digits[j] = c

DigitVal(c) == (CHOOSE j \in 1..Len(Digits) : Digits[j] = c) - 1

is_whitespace(c) == c \in {" ", "\n", "\t", "\r"}

RECURSIVE Pow10(_)
Pow10(k) == IF k = 0 THEN 1 ELSE 10 * Pow10(k - 1)

\* The digits of s read as a decimal integer, the dot skipped.
RECURSIVE Mantissa(_, _)
Mantissa(s, acc) ==
    IF s = <<>> THEN acc
    ELSE IF Head(s) = "." THEN Mantissa(Tail(s), acc)
    ELSE Mantissa(Tail(s), 10 * acc + DigitVal(Head(s)))

\* Number of characters of s after its first dot (0 when it has none).
RECURSIVE FracLen(_)
FracLen(s) ==
    IF s = <<>> THEN 0
    ELSE IF Head(s) = "." THEN Len(s) - 1
    ELSE FracLen(Tail(s))

CountDots(s) == Cardinality({j \in 1..Len(s) : s[j] = "."})

\* str::parse::<f64> on a run of digits and dots: Ok for at most one dot
\* and at least one digit.
f64_from_str(s) ==
    IF CountDots(s) <= 1 /\ Len(s) - CountDots(s) >= 1
    THEN [ok |-> TRUE, v |-> Fin(FALSE, Mantissa(s, 0), Pow10(FracLen(s)))]
    ELSE [ok |-> FALSE, v |-> NaN]

(***************************************************************************)
(* Tokens (parser.rs, enum Token).                                         *)
(***************************************************************************)
Num(v) == [t |-> "Num", v |-> v]
Plus == [t |-> "Plus"]
Minus == [t |-> "Minus"]
Star == [t |-> "Star"]
Slash == [t |-> "Slash"]
LeftParen == [t |-> "LeftParen"]
RightParen == [t |-> "RightParen"]
Eof == [t |-> "Eof"]

\* Mutant: every operator passes for a unary operator.
is_unary_op_any(tok) == tok.t \in {"Plus", "Minus", "Star", "Slash"}

is_unary_op(tok) == tok.t \in {"Plus", "Minus"}

\* Mutant: a closing parenthesis passes for a binary operator.
is_binary_op_loose(tok) ==
    tok.t \in {"Plus", "Minus", "Star", "Slash", "RightParen"}

is_binary_op(tok) == tok.t \in {"Plus", "Minus", "Star", "Slash"}

\* Mutant: the two ranks exchanged.
precedence_swapped(tok) ==
    IF tok.t \in {"Plus", "Minus"} THEN [panic |-> FALSE, rank |-> 2]
    ELSE IF tok.t \in {"Star", "Slash"} THEN [panic |-> FALSE, rank |-> 1]
    ELSE [panic |-> TRUE, rank |-> 0]

\* panic |-> TRUE stands for panic!("Invalid operator").
precedence(tok) ==
    IF tok.t \in {"Plus", "Minus"} THEN [panic |-> FALSE, rank |-> 1]
    ELSE IF tok.t \in {"Star", "Slash"} THEN [panic |-> FALSE, rank |-> 2]
    ELSE [panic |-> TRUE, rank |-> 0]

(***************************************************************************)
(* Expression trees (parser.rs, enum Expr) and their evaluation.           *)
(***************************************************************************)
ENum(v) == [op |-> "Num", v |-> v]
EPlus(e) == [op |-> "Plus", e |-> e]
EMinus(e) == [op |-> "Minus", e |-> e]
Add(lhs, rhs) == [op |-> "Add", lhs |-> lhs, rhs |-> rhs]
Sub(lhs, rhs) == [op |-> "Sub", lhs |-> lhs, rhs |-> rhs]
Mul(lhs, rhs) == [op |-> "Mul", lhs |-> lhs, rhs |-> rhs]
Div(lhs, rhs) == [op |-> "Div", lhs |-> lhs, rhs |-> rhs]

RECURSIVE eval(_)
eval(e) ==
    CASE e.op = "Num" -> e.v
      [] e.op = "Plus" -> eval(e.e)
      [] e.op = "Minus" -> f64_neg(eval(e.e))
      [] e.op = "Add" -> f64_add(eval(e.lhs), eval(e.rhs))
      [] e.op = "Sub" -> f64_sub(eval(e.lhs), eval(e.rhs))
      [] e.op = "Mul" -> f64_mul(eval(e.lhs), eval(e.rhs))
      [] e.op = "Div" -> f64_div(eval(e.lhs), eval(e.rhs))

(***************************************************************************)
(* Results.  r is "Ok", "Err" (an error.rs value) or "Panic" (the call     *)
(* unwound); pos is the cursor of the parser when it returned.             *)
(***************************************************************************)
Ok(e, pos) == [r |-> "Ok", e |-> e, pos |-> pos]
Err(kind, arg, pos) == [r |-> "Err", e |-> [kind |-> kind, arg |-> arg], pos |-> pos]
Panic(msg, pos) == [r |-> "Panic", e |-> msg, pos |-> pos]

InvalidBinOp(pos) == Err("InvalidBinOp", <<>>, pos)
InvalidUnaryOp(pos) == Err("InvalidUnaryOp", <<>>, pos)
InvalidIdent(pos) == Err("InvalidIdent", <<>>, pos)
InvalidNumber(text, pos) == Err("InvalidNumber", text, pos)
UnexpectedChar(c, pos) == Err("UnexpectedChar", <<c>>, pos)

\* The #[error(...)] texts of error.rs.
Display(err) ==
    CASE err.kind = "InvalidBinOp" -> "Invalid binary operation"
      [] err.kind = "InvalidUnaryOp" -> "Invalid unary operation"
      [] err.kind = "InvalidIdent" -> "Invalid identifier"
      [] err.kind = "InvalidNumber" -> "Invalid number: "
      [] err.kind = "UnexpectedChar" -> "Unexpected character: "

\* Mutant: a unary plus leaves no node.
apply_unary_dropplus(op, e) ==
    CASE op.t = "Plus" -> Ok(e, 0)
      [] op.t = "Minus" -> Ok(EMinus(e), 0)
      [] OTHER -> Panic("Illegal unary apply", 0)

apply_unary(op, e) ==
    CASE op.t = "Plus" -> Ok(EPlus(e), 0)
      [] op.t = "Minus" -> Ok(EMinus(e), 0)
      [] OTHER -> Panic("Illegal unary apply", 0)

apply_binary(op, lhs, rhs) ==
    CASE op.t = "Plus" -> Ok(Add(lhs, rhs), 0)
      [] op.t = "Minus" -> Ok(Sub(lhs, rhs), 0)
      [] op.t = "Star" -> Ok(Mul(lhs, rhs), 0)
      [] op.t = "Slash" -> Ok(Div(lhs, rhs), 0)
      [] OTHER -> Panic("Illegal binary apply", 0)

\* A result of apply_unary or apply_binary, returned with the cursor at pos.
At(res, pos) == [res EXCEPT !.pos = pos]

(***************************************************************************)
(* The parser.  The State cursor is the index pos of the next token; peek  *)
(* and eat unwrap a None once pos is past the end of the tokens.           *)
(***************************************************************************)
can_peek(toks, pos) == pos <= Len(toks)

RECURSIVE parse_expr(_, _, _)
RECURSIVE parse_unary(_, _, _)
RECURSIVE parse_binary(_, _, _, _)

parse_unary(toks, pos, left) ==
    IF is_unary_op(left) THEN
        IF ~can_peek(toks, pos) THEN Panic("eat", pos)
        ELSE IF ~can_peek(toks, pos + 1) THEN Panic("peek", pos + 1)
        ELSE LET operand == parse_unary(toks, pos + 1, toks[pos + 1])
             IN IF operand.r # "Ok" THEN operand
                ELSE At(apply_unary(left, operand.e), operand.pos)
    ELSE IF left.t = "LeftParen" THEN
        IF ~can_peek(toks, pos) THEN Panic("eat", pos)
        ELSE parse_expr(toks, pos + 1, RightParen)
    ELSE IF left.t = "Num" THEN
        IF ~can_peek(toks, pos) THEN Panic("eat", pos)
        ELSE Ok(ENum(left.v), pos + 1)
    ELSE InvalidUnaryOp(pos)

\* Mutant: either terminator ends a subexpression, whichever was asked for.
parse_expr_anyend(toks, pos, end_token) ==
    IF ~can_peek(toks, pos) THEN Panic("peek", pos)
    ELSE LET left == parse_unary(toks, pos, toks[pos])
         IN IF left.r # "Ok" THEN left
            ELSE IF ~can_peek(toks, left.pos) THEN Panic("peek", left.pos)
            ELSE LET op == toks[left.pos]
                 IN IF op.t \in {"Eof", "RightParen"} THEN Ok(left.e, left.pos + 1)
                    ELSE IF ~is_binary_op(op) THEN InvalidBinOp(left.pos)
                    ELSE parse_binary(toks, left.pos, left.e, end_token)

parse_expr(toks, pos, end_token) ==
    IF ~can_peek(toks, pos) THEN Panic("peek", pos)
    ELSE LET left == parse_unary(toks, pos, toks[pos])
         IN IF left.r # "Ok" THEN left
            ELSE IF ~can_peek(toks, left.pos) THEN Panic("peek", left.pos)
            ELSE LET op == toks[left.pos]
                 IN IF op = end_token THEN Ok(left.e, left.pos + 1)
                    ELSE IF ~is_binary_op(op) THEN InvalidBinOp(left.pos)
                    ELSE parse_binary(toks, left.pos, left.e, end_token)

parse_binary(toks, pos, left, end_token) ==
    IF ~can_peek(toks, pos) THEN Panic("peek", pos)
    ELSE IF ~can_peek(toks, pos + 1) THEN Panic("peek", pos + 1)
    ELSE
    LET op == toks[pos]
        right == parse_unary(toks, pos + 1, toks[pos + 1])
    IN IF right.r # "Ok" THEN right
       ELSE IF ~can_peek(toks, right.pos) THEN Panic("peek", right.pos)
       ELSE
       LET next == toks[right.pos]
           combined == apply_binary(op, left, right.e)
       IN IF next = end_token THEN At(combined, right.pos + 1)
          ELSE IF ~is_binary_op(next) THEN InvalidBinOp(right.pos)
          ELSE IF precedence(op).panic \/ precedence(next).panic
               THEN Panic("Invalid operator", right.pos)
          ELSE IF precedence(op).rank < precedence(next).rank THEN
               LET rest == parse_binary(toks, right.pos, right.e, end_token)
               IN IF rest.r # "Ok" THEN rest
                  ELSE At(apply_binary(op, left, rest.e), rest.pos)
          ELSE IF combined.r # "Ok" THEN At(combined, right.pos)
          ELSE parse_binary(toks, right.pos, combined.e, end_token)

prat(toks) == parse_expr(toks, 1, Eof)

(***************************************************************************)
(* The tokenizer: the while loop of parse (parser.rs lines 62-111).        *)
(* chars is the input with p the index of the next character.              *)
(***************************************************************************)
\* The index after the greedy run of digits and dots that starts at p.
RECURSIVE NumberEnd(_, _)
NumberEnd(input, p) ==
    IF p <= Len(input) /\ (is_ascii_digit(input[p]) \/ input[p] = ".")
    THEN NumberEnd(input, p + 1)
    ELSE p

Lexed(res, toks) ==
    [r |-> res.r, e |-> res.e, pos |-> res.pos, tokens |-> toks]

RECURSIVE tokenize_from(_, _, _)
tokenize_from(input, p, toks) ==
    IF p > Len(input) THEN Lexed(Ok(<<>>, p), Append(toks, Eof))
    ELSE
    LET c == input[p]
    IN CASE c = "(" -> tokenize_from(input, p + 1, Append(toks, LeftParen))
         [] c = ")" -> tokenize_from(input, p + 1, Append(toks, RightParen))
         [] c = "+" -> tokenize_from(input, p + 1, Append(toks, Plus))
         [] c = "-" -> tokenize_from(input, p + 1, Append(toks, Minus))
         [] c = "*" -> tokenize_from(input, p + 1, Append(toks, Star))
         [] c = "/" -> tokenize_from(input, p + 1, Append(toks, Slash))
         [] c = "i" ->
              IF p + 1 > Len(input)
              THEN Lexed(Panic("called Option::unwrap() on a None value", p + 1), toks)
              ELSE IF input[p + 1] # "n" THEN Lexed(InvalidIdent(p + 2), toks)
              ELSE IF p + 2 > Len(input)
              THEN Lexed(Panic("called Option::unwrap() on a None value", p + 2), toks)
              ELSE IF input[p + 2] # "f" THEN Lexed(InvalidIdent(p + 3), toks)
              ELSE tokenize_from(input, p + 3, Append(toks, Num(INFINITY)))
         [] is_ascii_digit(c) \/ c = "." ->
              LET q == NumberEnd(input, p + 1)
                  text == SubSeq(input, p, q - 1)
                  num == f64_from_str(text)
              IN IF ~num.ok THEN Lexed(InvalidNumber(text, q), toks)
                 ELSE tokenize_from(input, q, Append(toks, Num(num.v)))
         [] is_whitespace(c) -> tokenize_from(input, p + 1, toks)
         [] OTHER -> Lexed(UnexpectedChar(c, p + 1), toks)

tokenize(input) == tokenize_from(input, 1, <<>>)

(***************************************************************************)
(* The read loop (main.rs).                                                *)
(***************************************************************************)
Chars == {"1", ".", "i", "n", "f", "-", "*", "(", ")", " ", "@"}

SeqsUpTo(S, n) == UNION {[1..m -> S] : m \in 0..n}

\* What read_line can put in buf while stdin is open: a line with its
\* terminator, or the unterminated rest of the input before end of file.
LinesUpTo(n) ==
    {body \o term : body \in SeqsUpTo(Chars, n), term \in {<<"\n">>, <<>>}}

Lines == LinesUpTo(MaxLineLen)

ShortLines == LinesUpTo(MaxShortLineLen)

NoExpr == [r |-> "None", e |-> "", pos |-> 0]

PanicLine(msg) == [stream |-> "stderr", prefix |-> "thread main panicked", msg |-> msg]
ExceptionLine == [stream |-> "stderr", prefix |-> "ERROR: ", msg |-> "Exception in parser"]
ErrorLine(err) ==
    [stream |-> "stderr", prefix |-> "ERROR: ", msg |-> Display(err), arg |-> err.arg]
ResultLine(index, result) == [stream |-> "stdout", index |-> index, value |-> result]

Init ==
    /\ buf = <<>>
    /\ eof = FALSE
    /\ i = 1
    /\ pc = "prompt"
    /\ tokens = <<>>
    /\ expr = NoExpr
    /\ out = <<>>
    /\ printed = 0

\* main.rs lines 12-14: clear the buffer and write the prompt.
Prompt ==
    /\ pc = "prompt"
    /\ buf' = <<>>
    /\ tokens' = <<>>
    /\ expr' = NoExpr
    /\ out' = <<>>
    /\ pc' = "read"
    /\ UNCHANGED <<eof, i, printed>>

\* main.rs line 15: read_line appends the next line, or nothing at end of file.
ReadLineFrom(lines) ==
    /\ pc = "read"
    /\ i <= MaxIndex
    /\ IF eof
       THEN UNCHANGED <<buf, eof>>
       ELSE \E line \in lines :
                /\ buf' = buf \o line
                /\ eof' = (line = <<>> \/ line[Len(line)] # "\n")
    /\ pc' = "tokenize"
    /\ UNCHANGED <<i, tokens, expr, out, printed>>

ReadLine == ReadLineFrom(Lines)

ReadShortLine == ReadLineFrom(ShortLines)

\* Mutant: the tokens lexed before a lexical error are parsed first, and a
\* syntax error among them is the one returned.
Tokenize_streaming ==
    /\ pc = "tokenize"
    /\ LET lexed == tokenize(buf)
           early == prat(Append(lexed.tokens, Eof))
       IN /\ tokens' = lexed.tokens
          /\ CASE lexed.r = "Ok" ->
                    /\ pc' = "prat"
                    /\ UNCHANGED <<expr, out>>
               [] lexed.r = "Err" ->
                    /\ pc' = "report"
                    /\ expr' = IF early.r = "Err" /\ early.pos <= Len(lexed.tokens)
                               THEN early
                               ELSE Err(lexed.e.kind, lexed.e.arg, lexed.pos)
                    /\ UNCHANGED out
               [] lexed.r = "Panic" ->
                    /\ pc' = "report"
                    /\ expr' = Panic(lexed.e, lexed.pos)
                    /\ out' = Append(out, PanicLine(lexed.e))
    /\ UNCHANGED <<buf, eof, i, printed>>

\* parser.rs lines 62-111 under catch_unwind (main.rs line 16).
Tokenize ==
    /\ pc = "tokenize"
    /\ LET lexed == tokenize(buf)
       IN /\ tokens' = lexed.tokens
          /\ CASE lexed.r = "Ok" ->
                    /\ pc' = "prat"
                    /\ UNCHANGED <<expr, out>>
               [] lexed.r = "Err" ->
                    /\ pc' = "report"
                    /\ expr' = Err(lexed.e.kind, lexed.e.arg, lexed.pos)
                    /\ UNCHANGED out
               [] lexed.r = "Panic" ->
                    /\ pc' = "report"
                    /\ expr' = Panic(lexed.e, lexed.pos)
                    /\ out' = Append(out, PanicLine(lexed.e))
    /\ UNCHANGED <<buf, eof, i, printed>>

\* parser.rs line 112 and prat, under catch_unwind (main.rs line 16).
Prat ==
    /\ pc = "prat"
    /\ expr' = prat(tokens)
    /\ out' = IF expr'.r = "Panic" THEN Append(out, PanicLine(expr'.e)) ELSE out
    /\ pc' = "report"
    /\ UNCHANGED <<buf, eof, i, tokens, printed>>

\* Mutant: the panic is reported and then the Err is unwrapped, which ends
\* the process.
ReportPanic_crash ==
    /\ pc = "report"
    /\ expr.r = "Panic"
    /\ out' = Append(out, ExceptionLine)
    /\ pc' = "crashed"
    /\ UNCHANGED <<buf, eof, i, tokens, expr, printed>>

\* main.rs lines 17-20.
ReportPanic ==
    /\ pc = "report"
    /\ expr.r = "Panic"
    /\ out' = Append(out, ExceptionLine)
    /\ pc' = "prompt"
    /\ UNCHANGED <<buf, eof, i, tokens, expr, printed>>

\* Mutant: a failed line advances the index too.
ReportError_counting ==
    /\ pc = "report"
    /\ expr.r = "Err"
    /\ out' = Append(out, ErrorLine(expr.e))
    /\ i' = i + 1
    /\ pc' = "prompt"
    /\ UNCHANGED <<buf, eof, tokens, expr, printed>>

\* main.rs lines 21-25.
ReportError ==
    /\ pc = "report"
    /\ expr.r = "Err"
    /\ out' = Append(out, ErrorLine(expr.e))
    /\ pc' = "prompt"
    /\ UNCHANGED <<buf, eof, i, tokens, expr, printed>>

\* main.rs lines 26-28.
ReportResult ==
    /\ pc = "report"
    /\ expr.r = "Ok"
    /\ out' = Append(out, ResultLine(i, eval(expr.e)))
    /\ i' = i + 1
    /\ printed' = printed + 1
    /\ pc' = "prompt"
    /\ UNCHANGED <<buf, eof, tokens, expr>>

Next ==
    \/ Prompt
    \/ ReadLine
    \/ Tokenize
    \/ Prat
    \/ ReportPanic
    \/ ReportError
    \/ ReportResult

Spec == Init /\ [][Next]_vars

\* The same loop on shorter lines, with the fairness of a running program:
\* every step but read_line, which waits for input, is eventually taken.
Step == Prompt \/ Tokenize \/ Prat \/ ReportPanic \/ ReportError \/ ReportResult

NextShort ==
    \/ Prompt
    \/ ReadShortLine
    \/ Tokenize
    \/ Prat
    \/ ReportPanic
    \/ ReportError
    \/ ReportResult

FairSpec == Init /\ [][NextShort]_vars /\ WF_vars(Step)

(***************************************************************************)
(* The parser alone, on every token sequence the tokenizer can produce:    *)
(* any tokens followed by one Eof.                                         *)
(***************************************************************************)
One == Fin(FALSE, 1, 1)

TokenAlphabet == {Num(One), Plus, Minus, Star, Slash, LeftParen, RightParen}

FlatAlphabet == {Num(One), Plus, Minus, Star, Slash}

InitWith(alphabet, n) ==
    /\ tokens \in {Append(s, Eof) : s \in SeqsUpTo(alphabet, n)}
    /\ buf = <<>>
    /\ eof = FALSE
    /\ i = 1
    /\ pc = "prat"
    /\ expr = NoExpr
    /\ out = <<>>
    /\ printed = 0

InitTokens == InitWith(TokenAlphabet, MaxTokens)

InitFlat == InitWith(FlatAlphabet, MaxFlatTokens)

NextPrat == Prat

SpecTokens == InitTokens /\ [][NextPrat]_vars

SpecFlat == InitFlat /\ [][NextPrat]_vars

(***************************************************************************)
(* Shapes of expression trees.                                             *)
(***************************************************************************)
IsAdditive(e) == e.op \in {"Add", "Sub"}
IsMultiplicative(e) == e.op \in {"Mul", "Div"}
IsBinary(e) == IsAdditive(e) \/ IsMultiplicative(e)
IsUnary(e) == e.op \in {"Plus", "Minus"}

\* No binary node has a node of its own precedence as its right child.
RECURSIVE LeftGrouped(_)
LeftGrouped(e) ==
    IF IsBinary(e)
    THEN /\ ~(IsAdditive(e) /\ IsAdditive(e.rhs))
         /\ ~(IsMultiplicative(e) /\ IsMultiplicative(e.rhs))
         /\ LeftGrouped(e.lhs)
         /\ LeftGrouped(e.rhs)
    ELSE IF IsUnary(e) THEN LeftGrouped(e.e)
    ELSE TRUE

\* No Mul or Div node has an Add or Sub node as a child.
RECURSIVE TightProducts(_)
TightProducts(e) ==
    IF IsBinary(e)
    THEN /\ ~(IsMultiplicative(e) /\ (IsAdditive(e.lhs) \/ IsAdditive(e.rhs)))
         /\ TightProducts(e.lhs)
         /\ TightProducts(e.rhs)
    ELSE IF IsUnary(e) THEN TightProducts(e.e)
    ELSE TRUE

\* The unary operators on the path from e down to its first non-unary node,
\* outermost first, and that node.
RECURSIVE ChainOps(_)
ChainOps(e) == IF IsUnary(e) THEN <<e.op>> \o ChainOps(e.e) ELSE <<>>

RECURSIVE ChainBase(_)
ChainBase(e) == IF IsUnary(e) THEN ChainBase(e.e) ELSE e

Unit(ops, prim) == [ops |-> ops \o ChainOps(prim), prim |-> ChainBase(prim)]

\* The operands of the binary nodes of e from left to right, each with the
\* chain of unary operators applied to it.
RECURSIVE Units(_)
Units(e) ==
    IF IsBinary(e) THEN Units(e.lhs) \o Units(e.rhs)
    ELSE <<Unit(<<>>, e)>>

(***************************************************************************)
(* The grammar of the token sequences, read off the tokens alone.          *)
(***************************************************************************)
\* The first place where a left-to-right reading of toks finds a token that
\* fits neither an operand slot ("operand") nor an operator slot
\* ("operator"); "none" when Eof closes a complete expression.
RECURSIVE Scan(_, _, _, _)
Scan(toks, p, mode, depth) ==
    LET tok == toks[p]
    IN IF mode = "operand"
       THEN IF tok.t \in {"Plus", "Minus"} THEN Scan(toks, p + 1, "operand", depth)
            ELSE IF tok.t = "LeftParen" THEN Scan(toks, p + 1, "operand", depth + 1)
            ELSE IF tok.t = "Num" THEN Scan(toks, p + 1, "operator", depth)
            ELSE [kind |-> "operand", pos |-> p]
       ELSE IF tok.t \in {"Plus", "Minus", "Star", "Slash"}
            THEN Scan(toks, p + 1, "operand", depth)
            ELSE IF tok.t = "RightParen" /\ depth > 0
            THEN Scan(toks, p + 1, "operator", depth - 1)
            ELSE IF tok.t = "Eof" /\ depth = 0 THEN [kind |-> "none", pos |-> p]
            ELSE [kind |-> "operator", pos |-> p]

FirstFault(toks) == Scan(toks, 1, "operand", 0)

WellFormed(toks) == FirstFault(toks).kind = "none"

\* Nesting depth of the parentheses after the first p tokens.
Depth(toks, p) ==
    Cardinality({j \in 1..p : toks[j].t = "LeftParen"})
        - Cardinality({j \in 1..p : toks[j].t = "RightParen"})

Balanced(toks) ==
    /\ \A p \in 1..Len(toks) : Depth(toks, p) >= 0
    /\ Depth(toks, Len(toks)) = 0

HasParen(toks) == \E j \in 1..Len(toks) : toks[j].t \in {"LeftParen", "RightParen"}

\* The index of the RightParen that closes the LeftParen at index p.
MatchOf(toks, p) ==
    CHOOSE q \in p + 1..Len(toks) :
        /\ toks[q].t = "RightParen"
        /\ Depth(toks, q) = Depth(toks, p - 1)
        /\ \A m \in p..q - 1 : Depth(toks, m) > Depth(toks, p - 1)

UnaryNode(tok) == IF tok.t = "Plus" THEN "Plus" ELSE "Minus"

\* What Units must give for the well-formed expression body (no Eof): each
\* run of unary prefixes with the primary that follows it, a parenthesized
\* primary being the tree of the tokens between its parentheses.
RECURSIVE ExpectedUnits(_)
ExpectedUnits(body) ==
    LET k == CHOOSE n \in 0..Len(body) :
                 /\ \A j \in 1..n : is_unary_op(body[j])
                 /\ ~is_unary_op(body[n + 1])
        last == IF body[k + 1].t = "Num" THEN k + 1 ELSE MatchOf(body, k + 1)
        inner == SubSeq(body, k + 2, last - 1)
        ops == [j \in 1..k |-> UnaryNode(body[j])]
        first == IF body[k + 1].t = "Num" THEN <<Unit(ops, ENum(body[k + 1].v))>>
                 ELSE IF k = 0 THEN ExpectedUnits(inner)
                 ELSE <<Unit(ops, prat(Append(inner, Eof)).e)>>
    IN IF last = Len(body) THEN first
       ELSE first \o ExpectedUnits(SubSeq(body, last + 2, Len(body)))

Body(toks) == SubSeq(toks, 1, Len(toks) - 1)

(***************************************************************************)
(* Claims about the parser, on token sequences.                            *)
(***************************************************************************)
Parsed == pc = "report" /\ expr.r = "Ok"

\* C1: for every accepted parenthesis-free input, operators of equal
\* precedence group left to right: no Add/Sub node has an Add/Sub node as
\* its right child and no Mul/Div node a Mul/Div node, also with a
\* higher-precedence term between the two operators.
C1_LeftToRight == Parsed /\ ~HasParen(tokens) => LeftGrouped(expr.e)

\* C2: for every accepted parenthesis-free input, * and / bind tighter
\* than + and -: no Mul/Div node has an Add or Sub node as a child.
C2_ProductsBindTighter == Parsed /\ ~HasParen(tokens) => TightProducts(expr.e)

\* a + b * c is Add(a, Mul(b, c)).
C2_Witness ==
    /\ pc = "report"
    /\ tokens = <<Num(One), Plus, Num(One), Star, Num(One), Eof>>
    /\ expr.r = "Ok"
    /\ expr.e = Add(ENum(One), Mul(ENum(One), ENum(One)))

\* C6: parse returns Ok only for inputs whose parentheses are balanced; an
\* unclosed ( or an unmatched ) yields an error.
C6_OkOnlyIfBalanced ==
    pc = "report" /\ ~Balanced(tokens) => expr.r = "Err"

\* ( 1 + 1 with the parenthesis left open is rejected.
C6_Witness ==
    /\ pc = "report"
    /\ tokens = <<LeftParen, Num(One), Plus, Num(One), Eof>>
    /\ expr.r = "Err"

\* C7: every well-formed input is accepted, and each run of k >= 1 unary
\* prefixes yields k nested unary nodes in source order around the primary
\* that follows it and nothing more: the operands of the tree, read left to
\* right with their unary chains, are those of the tokens.
C7_UnaryChains ==
    pc = "report" /\ WellFormed(tokens) =>
        /\ expr.r = "Ok"
        /\ Units(expr.e) = ExpectedUnits(Body(tokens))

\* - + 1 * 1 is Mul(Minus(Plus(1)), 1).
C7_Witness ==
    /\ pc = "report"
    /\ tokens = <<Minus, Plus, Num(One), Star, Num(One), Eof>>
    /\ expr.r = "Ok"
    /\ expr.e = Mul(EMinus(EPlus(ENum(One))), ENum(One))

\* C9: on every token sequence ending in its one Eof the parser returns Ok
\* or an Error value: it never peeks or eats past the end, never asks the
\* precedence of a non-operator and never applies a non-operator.
C9_NoPanic ==
    pc = "report" =>
        /\ expr.r \in {"Ok", "Err"}
        /\ expr.pos <= Len(tokens) + 1
        /\ (expr.r = "Err" => expr.pos <= Len(tokens))

\* An accepted input leaves the cursor just behind Eof.
C9_Witness ==
    /\ pc = "report"
    /\ expr.r = "Ok"
    /\ HasParen(tokens)
    /\ expr.pos = Len(tokens) + 1

(***************************************************************************)
(* The lexical rules, read off the characters of a line alone.             *)
(***************************************************************************)
DigitChars == {"0", "1", "2", "3", "4", "5", "6", "7", "8", "9"}
OperatorChars == {"(", ")", "+", "-", "*", "/"}
BlankChars == {" ", "\n", "\t", "\r"}

\* The index after the run of digits and dots that starts at p.
RunEnd(s, p) ==
    CHOOSE q \in p + 1..Len(s) + 1 :
        /\ \A j \in p..q - 1 : s[j] \in DigitChars \cup {"."}
        /\ q = Len(s) + 1 \/ s[q] \notin DigitChars \cup {"."}

ValidLiteral(text) ==
    /\ Cardinality({j \in 1..Len(text) : text[j] = "."}) <= 1
    /\ \E j \in 1..Len(text) : text[j] \in DigitChars

\* Some lexical unit of s from index p on breaks a lexical rule: a character
\* outside the grammar, an i that does not begin inf, a run of digits and
\* dots that is no number.
RECURSIVE LexFault(_, _)
LexFault(s, p) ==
    IF p > Len(s) THEN FALSE
    ELSE IF s[p] \in OperatorChars \cup BlankChars THEN LexFault(s, p + 1)
    ELSE IF s[p] = "i"
         THEN IF p + 2 <= Len(s) /\ s[p + 1] = "n" /\ s[p + 2] = "f"
              THEN LexFault(s, p + 3)
              ELSE TRUE
    ELSE IF s[p] \in DigitChars \cup {"."}
         THEN IF ValidLiteral(SubSeq(s, p, RunEnd(s, p) - 1))
              THEN LexFault(s, RunEnd(s, p))
              ELSE TRUE
    ELSE TRUE

\* The tokenizer arrives at index k of buf: all before it is lexically sound.
Meets(k) == ~LexFault(SubSeq(buf, 1, k - 1), 1)

FollowedByNF(k) == k + 2 <= Len(buf) /\ buf[k + 1] = "n" /\ buf[k + 2] = "f"

Tokenized == pc \in {"prat", "report"}

TokenizedOk == Tokenized /\ Len(tokens) > 0 /\ tokens[Len(tokens)].t = "Eof"

IsError(kind) == expr.r = "Err" /\ expr.e.kind = kind

(***************************************************************************)
(* Claims about the tokenizer and the read loop.                           *)
(***************************************************************************)
\* C3: when the tokenizer meets the character i it emits Number(+infinity)
\* if the next two characters are n then f; for any mismatch, the input
\* ending right after i or after in included, parse returns InvalidIdent.
C3_InfKeyword ==
    \A k \in 1..Len(buf) :
        Tokenized /\ buf[k] = "i" /\ Meets(k) =>
            IF FollowedByNF(k)
            THEN LET n == Len(tokenize(SubSeq(buf, 1, k - 1)).tokens)
                 IN Len(tokens) >= n /\ tokens[n] = Num(INFINITY)
            ELSE IsError("InvalidIdent")

\* C4: every input line, valid, malformed or panicking, gets exactly one
\* outcome line (a result, ERROR: <kind>, or the distinct ERROR: Exception
\* in parser) and the loop then goes on to read the next line.
Outcomes(o) ==
    {j \in 1..Len(o) :
        o[j].stream = "stdout" \/ (o[j].stream = "stderr" /\ o[j].prefix = "ERROR: ")}

OutcomeFits(line) ==
    CASE expr.r = "Ok" -> line.stream = "stdout"
      [] expr.r = "Err" ->
            /\ line.stream = "stderr"
            /\ line.msg = Display(expr.e)
            /\ line.msg # ExceptionLine.msg
      [] expr.r = "Panic" -> line = ExceptionLine
      [] OTHER -> FALSE

C5_IndexCountsResults ==
    /\ i = printed + 1
    /\ (pc = "prompt" /\ expr.r = "Ok" => out[Len(out)].index = printed)

\* A failed line after one result: the index is still 2.
C5_Witness ==
    /\ pc = "prompt"
    /\ expr.r \in {"Err", "Panic"}
    /\ printed = 1
    /\ i = 2

\* C8: after a successful tokenization, an operand slot (start of input,
\* after (, after a unary or a binary operator) holding ), *, / or Eof makes
\* parse fail with InvalidUnaryOp; so does an empty or blank line.
C8_BadOperand ==
    pc = "report" /\ TokenizedOk /\ FirstFault(tokens).kind = "operand" =>
        /\ tokens[FirstFault(tokens).pos].t \in {"RightParen", "Star", "Slash", "Eof"}
        /\ IsError("InvalidUnaryOp")
        /\ expr.pos = FirstFault(tokens).pos

\* A blank line.
C8_Witness ==
    /\ pc = "report"
    /\ buf = <<" ", " ", "\n">>
    /\ tokens = <<Eof>>
    /\ IsError("InvalidUnaryOp")

\* C10: the whole line is tokenized before any parsing: on a line with a
\* lexical fault the parser is never started, no tree is built, and the
\* error is never InvalidUnaryOp or InvalidBinOp, wherever the fault lies.
C10_LexicalFirst ==
    LexFault(buf, 1) =>
        /\ pc # "prat"
        /\ expr.r # "Ok"
        /\ ~IsError("InvalidUnaryOp")
        /\ ~IsError("InvalidBinOp")

\* ) @ yields UnexpectedChar('@').
C10_Witness ==
    /\ pc = "report"
    /\ buf = <<")", " ", "@", "\n">>
    /\ IsError("UnexpectedChar")
    /\ expr.e.arg = <<"@">>

====
